---- MODULE Spec2Model ----
(***************************************************************************)
(* A model of the rewards pallet (pallets/rewards/src/lib.rs): the         *)
(* reward/mint schedule store, the block reward distribution and the       *)
(* vesting lock ledger.                                                    *)
(***************************************************************************)
EXTENDS Integers, Sequences, FiniteSets, TLC

(***************************************************************************)
(* Bounds of the model.                                                    *)
(***************************************************************************)
\* The last block number the chain is run to.
MaxBlock == 4

(***************************************************************************)
(* Runtime configuration (the Config trait's associated constants).        *)
(***************************************************************************)
\* T::MinerRewardsPercent, the default miner share in percent.
MinerRewardsPercent == 50
\* <T as Config>::Currency::minimum_balance().
minimum_balance == 2
\* Percent::ACCURACY and Perbill::ACCURACY, the parts of 100%.
PercentAccuracy == 100
PerbillAccuracy == 1000000000

\* Option<T>: None is the empty sequence and Some(v) the sequence of v.
None == << >>
Some(v) == << v >>
\* The accounts of the model, ordered as their numbers; the account of
\* pallet_treasury is one more.
Accounts == {1, 2}
TreasuryAccount == 3
AccountId == Accounts \cup {TreasuryAccount}

(***************************************************************************)
(* BTreeMap: a function of a finite domain, iterated in ascending key      *)
(* order.                                                                  *)
(***************************************************************************)
EmptyMap == [k \in {} |-> 0]

Insert(m, k, v) == [x \in (DOMAIN m) \cup {k} |-> IF x = k THEN v ELSE m[x]]

Remove(m, k) == [x \in (DOMAIN m) \ {k} |-> m[x]]

Get(m, k, default) == IF k \in DOMAIN m THEN m[k] ELSE default

MinOf(S) == CHOOSE x \in S : \A y \in S : x <= y

\* The elements of a set of block numbers (or of ordered keys) in
\* ascending order: the order of BTreeMap::iter and BTreeMap::range.
RECURSIVE Ascending(_)
Ascending(S) ==
    IF S = {} THEN << >>
    ELSE LET lo == MinOf(S) IN << lo >> \o Ascending(S \ {lo})

\* BTreeMap::from_iter on a vector of (key, value) pairs: a later pair
\* replaces an earlier one of the same key.
RECURSIVE FromIter(_)
FromIter(v) ==
    IF v = << >> THEN EmptyMap
    ELSE LET n == Len(v)
         IN Insert(FromIter(SubSeq(v, 1, n - 1)), v[n][1], v[n][2])

(***************************************************************************)
(* Balance arithmetic.  Balances are u128; the amounts of the model stay   *)
(* far below the type's ceiling, where saturating_add is plain addition.   *)
(***************************************************************************)
saturating_add(a, b) == a + b

saturating_sub(a, b) == IF a >= b THEN a - b ELSE 0

(***************************************************************************)
(* Per-thing arithmetic: Percent in parts of 100, Perbill in parts of      *)
(* 10^9.  The runtime computes the products in wider integers; here they   *)
(* are computed in pieces, so that no intermediate value leaves the        *)
(* 32-bit integers of TLC.  A quotient goes with its remainder,            *)
(* << n \div d, n % d >>.                                                  *)
(***************************************************************************)
DivRem(n, d) == << n \div d, n % d >>

\* (x * parts) by 10^9, for a balance x below the ceiling of the model's
\* amounts (x <= 11000) and parts <= 10^9: parts is split at 10^5.
PerbillProductDivRem(x, parts) ==
    LET hi == parts \div 100000
        lo == parts % 100000
        A  == x * hi
        R  == (A % 10000) * 100000 + x * lo
    IN << (A \div 10000) + (R \div PerbillAccuracy), R % PerbillAccuracy >>

\* (10^9 * p) by q for p <= q, q > 0.  Rates that are whole percents share
\* the factor 10^7, which is cancelled: that changes neither quotient nor
\* rounding.  10^9 is multiplied in as 10^5 and 10^4 (exact while the
\* cancelled divisor is at most 21474).  The remainder is that of the
\* cancelled fraction and goes with the cancelled divisor:
\* << quotient, remainder, divisor >>.
PercentUnit == PerbillAccuracy \div PercentAccuracy

PerbillQuotient(p, q) ==
    LET c  == IF p % PercentUnit = 0 /\ q % PercentUnit = 0 THEN PercentUnit ELSE 1
        p1 == p \div c
        q1 == q \div c
        t  == DivRem(100000 * p1, q1)
        u  == DivRem(10000 * t[2], q1)
    IN << 10000 * t[1] + u[1], u[2], q1 >>

\* Rounding::NearestPrefDown and Rounding::Down of a quotient with its
\* remainder: to the nearest, a tie going down.
RoundNearestPrefDown(qr, d) == IF 2 * qr[2] > d THEN qr[1] + 1 ELSE qr[1]

RoundDown(qr, d) == qr[1]

\* Percent * Balance and Perbill * Balance (Mul<N> for a per-thing):
\* overflow_prune_mul with Rounding::NearestPrefDown.
PercentMul(percent, x) ==
    (x \div PercentAccuracy) * percent
        + RoundNearestPrefDown(DivRem((x % PercentAccuracy) * percent, PercentAccuracy),
                               PercentAccuracy)

PerbillMul(perbill, x) ==
    (x \div PerbillAccuracy) * perbill
        + RoundNearestPrefDown(PerbillProductDivRem(x % PerbillAccuracy, perbill),
                               PerbillAccuracy)

\* Perbill::from_percent: the percent is capped at 100.
PerbillFromPercent(p) ==
    (IF p > 100 THEN 100 ELSE p) * (PerbillAccuracy \div 100)

\* PerThing::int_mul: parts times an integer, saturating at 100%.
PerbillIntMul(perbill, n) ==
    IF perbill * n > PerbillAccuracy THEN PerbillAccuracy ELSE perbill * n

\* Perbill::from_rational_with_rounding(p, q, r): None (here -1) when q is
\* zero or p > q.
PerbillFromRationalDown(p, q) ==
    IF q = 0 \/ p > q THEN -1
    ELSE LET r == PerbillQuotient(p, q) IN RoundDown(r, r[3])

PerbillFromRationalNearestPrefDown(p, q) ==
    IF q = 0 \/ p > q THEN -1
    ELSE LET r == PerbillQuotient(p, q) IN RoundNearestPrefDown(r, r[3])

\* Perbill::from_rational(p, q): rounds down, and is 100% where the
\* rounding variant gives an error.
PerbillFromRational(p, q) ==
    LET r == PerbillFromRationalDown(p, q)
    IN IF r < 0 THEN PerbillAccuracy ELSE r

\* Perbill::saturating_div(self, rhs, Rounding::NearestPrefDown).
PerbillSaturatingDiv(p, q) ==
    LET r == PerbillFromRationalNearestPrefDown(p, q)
    IN IF r < 0 THEN PerbillAccuracy ELSE r

(***************************************************************************)
(* The state: the pallet's storage items, the block number of              *)
(* frame_system, the currency's lock of each account under REWARDS_ID, the *)
(* runtime's configured pool ceiling, and what the handler that ran last   *)
(* did through deposit_event, deposit_creating and do_reward.              *)
(***************************************************************************)
VARIABLES
    pc,                 \* "start" | "initialized" | "body": the place in the block
    block_number,       \* frame_system::Pallet::block_number()
    digest,             \* the author the block's digest decodes to, or None
    Author,             \* storage Author: Option<AccountId>
    Reward,             \* storage Reward
    RewardChanges,      \* storage RewardChanges: BTreeMap<BlockNumber, Balance>
    Mints,              \* storage Mints: BTreeMap<AccountId, Balance>
    MintChanges,        \* storage MintChanges
    RewardLocks,        \* storage RewardLocks: AccountId => BTreeMap
    LockParams,         \* storage LockParams: Option<LockParameters>
    MinerShare,         \* storage MinerShare: Option<Percent>
    currency_locks,     \* per account: the amount of the lock the pallet set
                        \* under REWARDS_ID (its last set_lock), None if it
                        \* set none or removed it
    MiningPoolMaxRate,  \* T::MiningPoolMaxRate, in percent
    events,             \* the events the last handler deposited, in order
    deposits,           \* the deposit_creating calls of the last handler
    result,             \* "Ok" or the error the last dispatchable returned
    do_reward_calls     \* the locals of each do_reward call of the last handler

vars == << pc, block_number, digest, Author, Reward, RewardChanges, Mints,
           MintChanges, RewardLocks, LockParams, MinerShare, currency_locks,
           MiningPoolMaxRate, events, deposits, result, do_reward_calls >>

schedule_vars == << Reward, RewardChanges, Mints, MintChanges >>
ledger_vars == << RewardLocks, currency_locks >>

(***************************************************************************)
(* The external strategies of Config::GenerateRewardLocks.                 *)
(***************************************************************************)
\* The reward curve: the nominal reward of a block.
CurveReward == 4
HalvingBlock == 3
calc_rewards(when) ==
    IF when < HalvingBlock THEN CurveReward ELSE CurveReward \div 2

\* A payout spread over `divide` unlock blocks, period/divide apart, each
\* of total/divide, the rounding remainder in the last one; empty when no
\* lock parameters are set.
generate_reward_locks(current_block, total_reward, lock_parameters) ==
    IF lock_parameters = None THEN EmptyMap
    ELSE LET n    == lock_parameters[1].divide
             step == lock_parameters[1].period \div n
         IN [k \in {current_block + i * step : i \in 1..n} |->
                IF k = current_block + n * step
                THEN (total_reward \div n) + (total_reward % n)
                ELSE total_reward \div n]

(***************************************************************************)
(* The lock ledger.  A ledger value L carries what a payout changes:       *)
(* L.locks (RewardLocks), L.clock (the currency locks), L.deposits and     *)
(* L.events.                                                               *)
(***************************************************************************)
Ledger(locks, clock, deps, evs) ==
    [locks |-> locks, clock |-> clock, deposits |-> deps, events |-> evs]

\* Currency::deposit_creating(who, amount), made by `by`.
deposit_creating(L, who, amount, by) ==
    [L EXCEPT !.deposits = Append(@, [who |-> who, amount |-> amount, by |-> by])]

\* Expiry that spares the entry of the current block.
expired_keys_before(locks, current_number) ==
    {k \in DOMAIN locks : k < current_number}

\* The keys do_update_reward_locks expires when it is not forced.
expired_keys(locks, current_number) ==
    {k \in DOMAIN locks : k <= current_number}

RECURSIVE SumOver(_, _)
SumOver(m, keys) ==
    IF keys = << >> THEN 0
    ELSE saturating_add(SumOver(m, Tail(keys)), m[Head(keys)])

RECURSIVE RemoveAll(_, _)
RemoveAll(m, keys) ==
    IF keys = << >> THEN m ELSE RemoveAll(Remove(m, Head(keys)), Tail(keys))

\* A forced branch that leaves the currency lock as it is.
force_currency_lock_kept(clock, author) == clock

\* A forced branch that sets the currency lock to zero.
force_currency_lock_zeroed(clock, author) == [clock EXCEPT ![author] = Some(0)]

\* What the forced branch does to the currency: remove_lock.
force_currency_lock(clock, author) == [clock EXCEPT ![author] = None]

\* do_update_reward_locks.  T::Currency is an abstract LockableCurrency: the
\* ledger's clock holds the amount the pallet passes to set_lock, a sum of 0
\* included, and None after remove_lock.
do_update_reward_locks(L, author, locks, current_number, force) ==
    IF force
    THEN LET expired == Ascending(DOMAIN locks)
         IN [L EXCEPT !.clock = force_currency_lock(L.clock, author),
                      !.locks[author] = RemoveAll(locks, expired)]
    ELSE LET expired      == Ascending(expired_keys(locks, current_number))
             kept         == Ascending((DOMAIN locks) \ expired_keys(locks, current_number))
             total_locked == SumOver(locks, kept)
         IN [L EXCEPT !.clock[author] = Some(total_locked),
                      !.locks[author] = RemoveAll(locks, expired)]

\* A merge that overwrites the balance at a key the account already holds.
RECURSIVE merge_locks_overwriting(_, _, _)
merge_locks_overwriting(locks, new_locks, keys) ==
    IF keys = << >> THEN locks
    ELSE merge_locks_overwriting(Insert(locks, Head(keys), new_locks[Head(keys)]),
                                 new_locks, Tail(keys))

\* The merge of a generated schedule into the account's locks.
RECURSIVE merge_locks(_, _, _)
merge_locks(locks, new_locks, keys) ==
    IF keys = << >> THEN locks
    ELSE LET k           == Head(keys)
             old_balance == Get(locks, k, 0)
             new_balance == saturating_add(old_balance, new_locks[k])
         IN merge_locks(Insert(locks, k, new_balance), new_locks, Tail(keys))

\* A payout that is deposited only when a schedule was generated.
do_reward_per_account_deposit_when_locked(L, account, reward, when, lock_params) ==
    IF Cardinality(DOMAIN generate_reward_locks(when, reward, lock_params)) > 0
    THEN do_update_reward_locks(
             deposit_creating(L, account, reward, "reward"), account,
             merge_locks(L.locks[account],
                         generate_reward_locks(when, reward, lock_params),
                         Ascending(DOMAIN generate_reward_locks(when, reward, lock_params))),
             when, FALSE)
    ELSE L

do_reward_per_account(L, account, reward, when, lock_params) ==
    LET account_reward_locks == generate_reward_locks(when, reward, lock_params)
        L1 == deposit_creating(L, account, reward, "reward")
    IN IF Cardinality(DOMAIN account_reward_locks) > 0
       THEN do_update_reward_locks(
                L1, account,
                merge_locks(L1.locks[account], account_reward_locks,
                            Ascending(DOMAIN account_reward_locks)),
                when, FALSE)
       ELSE L1

\* RewardLocksApi::locks.
locks(account_id) ==
    SumOver(RewardLocks[account_id], Ascending(DOMAIN RewardLocks[account_id]))

(***************************************************************************)
(* The reward distribution.  A pool statistic is None or a record          *)
(* Some([fee, rate, members]): pool_stat.0 and pool_stat.1 in percent and  *)
(* pool_stat.2, the sequence of <<member, weight>>.                        *)
(***************************************************************************)
\* The fraction of the miner's total that a pool above the limit loses.
overmined_rate(pool_rate, limit) ==
    IF pool_rate <= limit THEN 0
    ELSE IF pool_rate >= PerbillIntMul(limit, 2) THEN PerbillAccuracy
    ELSE PerbillSaturatingDiv(pool_rate - limit, limit)

\* A slash that is added to the miner's total.
miner_plus_slash(miner_total, slash_amount) ==
    saturating_add(miner_total, slash_amount)

\* miner_total after the slash.
miner_after_slash(miner_total, slash_amount) ==
    saturating_sub(miner_total, slash_amount)

\* Whether the slash is deposited and PoolExceedsLimit is emitted.
slash_due(overmined, slash_amount) == overmined > 0

RECURSIVE sum_weights(_)
sum_weights(members) ==
    IF members = << >> THEN 0 ELSE members[1][2] + sum_weights(Tail(members))

\* Payouts that use the declared weights even when their sum is zero.
member_rewards_declared_weights(members, members_total) ==
    LET sum_weight == sum_weights(members)
        tot_weight == IF sum_weight = 0 THEN Len(members) ELSE sum_weight
    IN [i \in 1..Len(members) |->
           << members[i][1],
              PerbillMul(PerbillFromRational(members[i][2], tot_weight), members_total) >>]

\* The payout of each member of the pool, in the members' order.
member_rewards(members, members_total) ==
    LET sum_weight == sum_weights(members)
        tot_weight == IF sum_weight = 0 THEN Len(members) ELSE sum_weight
    IN [i \in 1..Len(members) |->
           LET w == IF sum_weight = 0 THEN 1 ELSE members[i][2]
           IN << members[i][1],
                 PerbillMul(PerbillFromRational(w, tot_weight), members_total) >>]

RECURSIVE sum_paid(_)
sum_paid(payouts) ==
    IF payouts = << >> THEN 0
    ELSE saturating_add(sum_paid(Tail(payouts)), payouts[1][2])

\* miner_total after the members' payouts: the pool's part and what was
\* not paid to the members.
miner_after_members(pool_total, members_total, payed_rewards) ==
    saturating_add(pool_total, saturating_sub(members_total, payed_rewards))

\* The share of one validator taken without the fallback of from_rational:
\* an error (-1) for an empty set.
validator_share_unwrapped(n_val) == PerbillFromRationalDown(1, n_val)

\* The share of one validator: Perbill::from_rational(1, n_val).
validator_share(n_val) == PerbillFromRational(1, n_val)

\* do_reward_per_account for each <<account, amount>> of a sequence.
RECURSIVE pay_each(_, _, _, _)
pay_each(L, payouts, when, lock_params) ==
    IF payouts = << >> THEN L
    ELSE pay_each(do_reward_per_account(L, payouts[1][1], payouts[1][2],
                                        when, lock_params),
                  Tail(payouts), when, lock_params)

\* do_reward is taken in the order of its statements.  A call c carries
\* the arguments, the ledger c.L and the locals; each step below fills in
\* the locals its statements assign.

\* Lines 356-357 and 362-365: the miner's share, the pool's rate, the limit.
do_reward_enter(L, author, reward, when, miner_share, lock_params, limit_percent, pool_stat, validators) ==
    [L |-> L, author |-> author, reward |-> reward, when |-> when,
     lock_params |-> lock_params, pool_stat |-> pool_stat, validators |-> validators,
     miner_share |-> IF miner_share = None THEN MinerRewardsPercent ELSE miner_share[1],
     pooled |-> pool_stat # None,
     pool_rate |-> IF pool_stat # None THEN PerbillFromPercent(pool_stat[1].rate) ELSE 0,
     limit |-> PerbillFromPercent(limit_percent),
     pre_slash |-> 0, overmined |-> 0, slash_amount |-> 0, slashed |-> FALSE,
     pool_total |-> 0, members_total |-> 0, paid_members |-> << >>,
     payed_rewards |-> 0, miner_total |-> 0, validator_total |-> 0,
     per_val |-> 0, panicked |-> FALSE]

\* Line 358.
do_reward_miner_total(c) ==
    [c EXCEPT !.pre_slash = PercentMul(c.miner_share, c.reward),
              !.miner_total = PercentMul(c.miner_share, c.reward)]

\* Lines 366-374.
do_reward_overmined(c) ==
    IF c.pooled
    THEN [c EXCEPT !.overmined = overmined_rate(c.pool_rate, c.limit)]
    ELSE c

\* Line 376.
do_reward_slash_amount(c) ==
    IF c.pooled
    THEN [c EXCEPT !.slash_amount = PerbillMul(c.overmined, c.miner_total)]
    ELSE c

\* Lines 377-382.
do_reward_slash(c) ==
    IF c.pooled
    THEN [c EXCEPT
            !.slashed = slash_due(c.overmined, c.slash_amount),
            !.L = IF slash_due(c.overmined, c.slash_amount)
                  THEN [deposit_creating(@, TreasuryAccount, c.slash_amount, "slash")
                           EXCEPT !.events =
                               Append(@, << "PoolExceedsLimit", c.author,
                                            c.slash_amount >>)]
                  ELSE @,
            !.miner_total = miner_after_slash(c.miner_total, c.slash_amount)]
    ELSE c

\* Line 385.
do_reward_pool_total(c) ==
    IF c.pooled
    THEN [c EXCEPT !.pool_total = PercentMul(c.pool_stat[1].fee, c.miner_total)]
    ELSE c

\* Line 388.
do_reward_members_total(c) ==
    IF c.pooled
    THEN [c EXCEPT !.members_total = saturating_sub(c.miner_total, c.pool_total)]
    ELSE c

\* Lines 389-395: the members' payouts.
do_reward_member_rewards(c) ==
    IF c.pooled
    THEN [c EXCEPT !.paid_members =
                       member_rewards(c.pool_stat[1].members, c.members_total)]
    ELSE c

\* Lines 392-399.
do_reward_pay_members(c) ==
    IF c.pooled
    THEN [c EXCEPT !.payed_rewards = sum_paid(c.paid_members),
                   !.L = pay_each(@, c.paid_members, c.when, c.lock_params)]
    ELSE c

\* Line 400.
do_reward_miner_rest(c) ==
    IF c.pooled
    THEN [c EXCEPT !.miner_total =
                       miner_after_members(c.pool_total, c.members_total,
                                           c.payed_rewards)]
    ELSE c

\* Lines 402-403.
do_reward_pay_author(c) ==
    [c EXCEPT !.L = do_reward_per_account(@, c.author, c.miner_total, c.when,
                                          c.lock_params),
              !.validator_total = saturating_sub(c.reward, c.miner_total)]

\* Lines 407-410.
do_reward_per_val(c) ==
    IF validator_share(Len(c.validators)) < 0
    THEN [c EXCEPT !.panicked = TRUE]
    ELSE [c EXCEPT !.per_val = PerbillMul(validator_share(Len(c.validators)),
                                          c.validator_total)]

\* Lines 412-415.
do_reward_pay_validators(c) ==
    IF c.panicked THEN c
    ELSE [c EXCEPT !.L = pay_each(@, [i \in 1..Len(c.validators) |->
                                         << c.validators[i], c.per_val >>],
                                  c.when, c.lock_params)]

\* The ledger after the call, and the call's locals.
do_reward_leave(c) ==
    [L |-> c.L,
     call |-> [author |-> c.author, reward |-> c.reward, miner_share |-> c.miner_share,
               pre_slash |-> c.pre_slash, pooled |-> c.pooled,
               members |-> IF c.pooled THEN c.pool_stat[1].members ELSE << >>,
               pool_rate |-> c.pool_rate, limit |-> c.limit,
               overmined |-> c.overmined, slash_amount |-> c.slash_amount,
               slashed |-> c.slashed, pool_total |-> c.pool_total,
               members_total |-> c.members_total, paid_members |-> c.paid_members,
               payed_rewards |-> c.payed_rewards, miner_total |-> c.miner_total,
               validator_total |-> c.validator_total, validators |-> c.validators,
               per_val |-> c.per_val, panicked |-> c.panicked]]

do_reward(L, author, reward, when, miner_share, lock_params, limit_percent, pool_stat, validators) ==
    do_reward_leave(
     do_reward_pay_validators(
      do_reward_per_val(
       do_reward_pay_author(
        do_reward_miner_rest(
         do_reward_pay_members(
          do_reward_member_rewards(
           do_reward_members_total(
            do_reward_pool_total(
             do_reward_slash(
              do_reward_slash_amount(
               do_reward_overmined(
                do_reward_miner_total(
                 do_reward_enter(L, author, reward, when, miner_share, lock_params,
                                 limit_percent, pool_stat, validators))))))))))))))

\* do_mints: a deposit to every account of the mint map, in key order.
RECURSIVE do_mints(_, _, _)
do_mints(L, mints, keys) ==
    IF keys = << >> THEN L
    ELSE do_mints(deposit_creating(L, Head(keys), mints[Head(keys)], "mint"),
                  mints, Tail(keys))

(***************************************************************************)
(* The schedule store's part of on_initialize.                             *)
(***************************************************************************)
\* A range that excludes its upper end.
due_keys_excluding_now(changes, now) == {k \in DOMAIN changes : 0 <= k /\ k < now}

\* The keys of range((Included(0), Included(now))).
due_keys(changes, now) == {k \in DOMAIN changes : 0 <= k /\ k <= now}

\* The keys visited, in the order of the visit.
visit_order(changes, now) == Ascending(due_keys(changes, now))

\* One mutate(...) of on_initialize: every due change is set as the
\* current value and notified, in the order of the visit, then removed.
apply_changes(current, changes, now, event) ==
    LET removing == visit_order(changes, now)
        n == Len(removing)
    IN [current |-> IF n = 0 THEN current ELSE changes[removing[n]],
        changes |-> RemoveAll(changes, removing),
        events  |-> [i \in 1..n |-> << event, changes[removing[i]] >>]]

\* The reward on_initialize starts from: line 157 sets the curve's value.
initial_reward(reward, cur_block_number) == calc_rewards(cur_block_number)

\* on_initialize(now) on the schedule store, at system block cur_block_number.
advance(now, cur_block_number) ==
    LET r == apply_changes(initial_reward(Reward, cur_block_number),
                           RewardChanges, now, "RewardChanged")
        m == apply_changes(Mints, MintChanges, now, "MintsChanged")
    IN /\ Reward' = r.current
       /\ RewardChanges' = r.changes
       /\ Mints' = m.current
       /\ MintChanges' = m.changes
       /\ events' = r.events \o m.events

(***************************************************************************)
(* The handlers.                                                           *)
(***************************************************************************)
\* The block starts: frame_system sets the block number and the digest,
\* and on_initialize(now) runs.
on_initialize(now, digest_author) ==
    /\ pc = "start"
    /\ now > block_number /\ now <= MaxBlock
    /\ pc' = "initialized"
    /\ block_number' = now
    /\ digest' = digest_author
    /\ Author' = IF digest_author # None THEN digest_author ELSE Author
    /\ advance(now, now)
    /\ result' = "Ok"
    /\ deposits' = << >>
    /\ do_reward_calls' = << >>
    /\ UNCHANGED << ledger_vars, LockParams, MinerShare, MiningPoolMaxRate >>

\* on_initialize(now) run once more in a block that has been initialized,
\* for the same or an earlier block number.
on_initialize_again(now) ==
    /\ pc = "initialized"
    /\ now <= block_number
    /\ Author' = IF digest # None THEN digest ELSE Author
    /\ advance(now, block_number)
    /\ result' = "Ok"
    /\ deposits' = << >>
    /\ do_reward_calls' = << >>
    /\ UNCHANGED << pc, block_number, digest, ledger_vars, LockParams,
                    MinerShare, MiningPoolMaxRate >>

\* on_finalize without Author::kill().
author_not_killed(author) == author

\* What on_finalize leaves in Author.
author_after_finalize(author) == None

\* The ledger a handler leaves is stored.
store_ledger(L) ==
    /\ RewardLocks' = L.locks
    /\ currency_locks' = L.clock
    /\ deposits' = L.deposits
    /\ events' = L.events

\* on_finalize from the ledger L0 of the block, r being do_reward's result
\* for the recorded author.
finalize(L0, r) ==
    /\ do_reward_calls' = IF Author # None THEN << r.call >> ELSE << >>
    /\ store_ledger(do_mints(IF Author # None THEN r.L ELSE L0,
                             Mints, Ascending(DOMAIN Mints)))

on_finalize(now, pool_stat, validators) ==
    /\ pc \in {"initialized", "body"}
    /\ now = block_number
    /\ finalize(Ledger(RewardLocks, currency_locks, << >>, << >>),
                do_reward(Ledger(RewardLocks, currency_locks, << >>, << >>),
                          Author[1], Reward, now, MinerShare, LockParams,
                          MiningPoolMaxRate, pool_stat, validators))
    /\ Author' = author_after_finalize(Author)
    /\ result' = "Ok"
    /\ pc' = "start"
    /\ UNCHANGED << block_number, digest, schedule_vars, LockParams, MinerShare,
                    MiningPoolMaxRate >>

\* A check that looks at the first amount only.
first_low_of_head(amounts, err) ==
    IF amounts = << >> THEN "Ok"
    ELSE IF amounts[1] < minimum_balance THEN err
    ELSE "Ok"

\* The amounts set_schedule checks against the minimum balance, and the
\* error of the first that is too low ("Ok" when all pass).
RECURSIVE first_low(_, _)
first_low(amounts, err) ==
    IF amounts = << >> THEN "Ok"
    ELSE IF amounts[1] < minimum_balance THEN err
    ELSE first_low(Tail(amounts), err)

MapValues(m) == [i \in 1..Len(Ascending(DOMAIN m)) |-> m[Ascending(DOMAIN m)[i]]]

RECURSIVE Flatten(_)
Flatten(ss) == IF ss = << >> THEN << >> ELSE ss[1] \o Flatten(Tail(ss))

set_schedule_error(reward, mints, reward_changes, mint_changes) ==
    LET checks == << first_low(<< reward >>, "RewardTooLow"),
                     first_low(MapValues(mints), "MintTooLow"),
                     first_low(MapValues(reward_changes), "RewardTooLow"),
                     first_low(Flatten([i \in 1..Len(MapValues(mint_changes)) |->
                                           MapValues(MapValues(mint_changes)[i])]),
                               "MintTooLow") >>
        failed == {i \in 1..4 : checks[i] # "Ok"}
    IN IF failed = {} THEN "Ok" ELSE checks[MinOf(failed)]

set_schedule(reward, mints_vec, reward_changes_vec, mint_changes_vec) ==
    /\ pc \in {"initialized", "body"}
    /\ pc' = "body"
    /\ LET mints == FromIter(mints_vec)
           reward_changes == FromIter(reward_changes_vec)
           mint_changes == FromIter([i \in 1..Len(mint_changes_vec) |->
                               << mint_changes_vec[i][1],
                                  FromIter(mint_changes_vec[i][2]) >>])
           err == set_schedule_error(reward, mints, reward_changes, mint_changes)
       IN IF err # "Ok"
          THEN /\ result' = err
               /\ events' = << >>
               /\ UNCHANGED schedule_vars
          ELSE /\ result' = "Ok"
               /\ Reward' = reward
               /\ Mints' = mints
               /\ RewardChanges' = reward_changes
               /\ MintChanges' = mint_changes
               /\ events' = << << "RewardChanged", reward >>,
                               << "MintsChanged", mints >>,
                               << "ScheduleSet" >> >>
    /\ deposits' = << >>
    /\ do_reward_calls' = << >>
    /\ UNCHANGED << block_number, digest, Author, ledger_vars, LockParams,
                    MinerShare, MiningPoolMaxRate >>

\* T::LockParametersBounds.
period_min == 1
period_max == 4
divide_min == 1
divide_max == 2

set_lock_params(lock_params) ==
    /\ pc \in {"initialized", "body"}
    /\ pc' = "body"
    /\ LET in_bounds == /\ period_min <= lock_params.period
                        /\ lock_params.period <= period_max
                        /\ divide_min <= lock_params.divide
                        /\ lock_params.divide <= divide_max
       IN IF ~in_bounds
          THEN /\ result' = "LockParamsOutOfBounds"
               /\ events' = << >>
               /\ UNCHANGED LockParams
          ELSE IF lock_params.period % lock_params.divide # 0
          THEN /\ result' = "LockPeriodNotDivisible"
               /\ events' = << >>
               /\ UNCHANGED LockParams
          ELSE /\ result' = "Ok"
               /\ LockParams' = Some(lock_params)
               /\ events' = << << "LockParamsChanged", lock_params >> >>
    /\ deposits' = << >>
    /\ do_reward_calls' = << >>
    /\ UNCHANGED << block_number, digest, Author, schedule_vars, ledger_vars,
                    MinerShare, MiningPoolMaxRate >>

set_miner_share(pct) ==
    /\ pc \in {"initialized", "body"}
    /\ pc' = "body"
    /\ IF pct >= 0 /\ pct <= 100
       THEN MinerShare' = Some(pct) /\ events' = << << "MinerShare", pct >> >>
       ELSE UNCHANGED MinerShare /\ events' = << >>
    /\ result' = "Ok"
    /\ deposits' = << >>
    /\ do_reward_calls' = << >>
    /\ UNCHANGED << block_number, digest, Author, schedule_vars, ledger_vars,
                    LockParams, MiningPoolMaxRate >>

\* unlock: do_update_reward_locks on the stored locks of the signer at the
\* current block number, not forced.
unlock(target) ==
    /\ pc \in {"initialized", "body"}
    /\ pc' = "body"
    /\ LET L == do_update_reward_locks(
                    Ledger(RewardLocks, currency_locks, << >>, << >>),
                    target, RewardLocks[target], block_number, FALSE)
       IN /\ RewardLocks' = L.locks
          /\ currency_locks' = L.clock
    /\ result' = "Ok"
    /\ events' = << >>
    /\ deposits' = << >>
    /\ do_reward_calls' = << >>
    /\ UNCHANGED << block_number, digest, Author, schedule_vars, LockParams,
                    MinerShare, MiningPoolMaxRate >>

\* force_unlock: the same on the locks of any account, forced.
force_unlock(account_id) ==
    /\ pc \in {"initialized", "body"}
    /\ pc' = "body"
    /\ LET L == do_update_reward_locks(
                    Ledger(RewardLocks, currency_locks, << >>, << >>),
                    account_id, RewardLocks[account_id], block_number, TRUE)
       IN /\ RewardLocks' = L.locks
          /\ currency_locks' = L.clock
    /\ result' = "Ok"
    /\ events' = << >>
    /\ deposits' = << >>
    /\ do_reward_calls' = << >>
    /\ UNCHANGED << block_number, digest, Author, schedule_vars, LockParams,
                    MinerShare, MiningPoolMaxRate >>

(***************************************************************************)
(* The chain from genesis.  Spec runs the block hooks with the schedule's  *)
(* administration: no lock parameters are set and no author has a pool.    *)
(***************************************************************************)
\* T::MiningPoolMaxRate of the chain specifications, in percent.
ChainMaxRate == 30

Genesis ==
    /\ pc = "start"
    /\ block_number = 0
    /\ digest = None
    /\ Author = None
    /\ Reward = 0
    /\ RewardChanges = EmptyMap
    /\ Mints = EmptyMap
    /\ MintChanges = EmptyMap
    /\ RewardLocks = [a \in AccountId |-> EmptyMap]
    /\ LockParams = None
    /\ MinerShare = None
    /\ currency_locks = [a \in AccountId |-> None]
    /\ MiningPoolMaxRate = ChainMaxRate
    /\ events = << >>
    /\ deposits = << >>
    /\ result = "Ok"
    /\ do_reward_calls = << >>

Init == Genesis

\* The inputs of the chain specifications.
DigestAuthors == {None, Some(1)}
ValidatorSets == { << >>, << 2 >> }
ChangeKeys == {1, 2, 3}
MintChangeKeys == {2, 3}
RewardChangeVecs ==
    { << >> } \cup { << << k1, 3 >>, << k2, 5 >> >> : k1 \in ChangeKeys, k2 \in ChangeKeys }
MintChangeVecs ==
    { << >> } \cup { << << k1, << << 1, 2 >> >> >>, << k2, << << 2, 3 >> >> >> >> :
                        k1 \in MintChangeKeys, k2 \in MintChangeKeys }
\* The set_schedule calls: those with every amount at or above the
\* minimum balance, one with a low amount in each of the four places, and
\* two where a later pair of the same key replaces a pair with a low amount
\* before the amounts are checked.
ScheduleCalls ==
    ({3} \X { << >>, << << 1, 2 >>, << 2, 3 >> >> } \X RewardChangeVecs \X MintChangeVecs)
        \cup { << 1, << >>, << << 2, 5 >> >>, << >> >>,
               << 3, << << 1, 2 >>, << 2, 1 >> >>, << >>, << >> >>,
               << 3, << >>, << << 1, 3 >>, << 2, 1 >> >>, << >> >>,
               << 3, << >>, << >>, << << 2, << << 1, 1 >> >> >> >> >>,
               << 3, << << 1, 1 >>, << 1, 2 >> >>, << >>, << >> >>,
               << 3, << >>, << >>, << << 3, << << 1, 1 >> >> >>,
                                      << 3, << << 1, 2 >> >> >> >> >> }

Next ==
    \/ \E now \in 1..MaxBlock, d \in DigestAuthors : on_initialize(now, d)
    \/ \E c \in ScheduleCalls : set_schedule(c[1], c[2], c[3], c[4])
    \/ \E v \in ValidatorSets : on_finalize(block_number, None, v)

Spec == Init /\ [][Next]_vars

(***************************************************************************)
(* SpecReplay: the chain of Spec, where on_initialize may also run again   *)
(* in a block it has already initialized.                                  *)
(***************************************************************************)
NextReplay ==
    \/ Next
    \/ \E now \in 1..MaxBlock : on_initialize_again(now)

SpecReplay == Init /\ [][NextReplay]_vars

(***************************************************************************)
(* SpecSchedule: set_schedule calls in a block, on a store that holds a    *)
(* schedule set before.                                                    *)
(***************************************************************************)
StoredMints == { EmptyMap, (1 :> 2) }
StoredRewardChanges == { EmptyMap, (2 :> 3) }
StoredMintChanges == { EmptyMap, (3 :> (2 :> 2)) }

InitSchedule ==
    /\ pc = "initialized"
    /\ block_number = 1
    /\ digest = None
    /\ Author = None
    /\ Reward = calc_rewards(1)
    /\ RewardChanges \in StoredRewardChanges
    /\ Mints \in StoredMints
    /\ MintChanges \in StoredMintChanges
    /\ RewardLocks = [a \in AccountId |-> EmptyMap]
    /\ LockParams = None
    /\ MinerShare = None
    /\ currency_locks = [a \in AccountId |-> None]
    /\ MiningPoolMaxRate = ChainMaxRate
    /\ events = << >>
    /\ deposits = << >>
    /\ result = "Ok"
    /\ do_reward_calls = << >>

NextSchedule ==
    \E c \in ScheduleCalls : set_schedule(c[1], c[2], c[3], c[4])

SpecSchedule == InitSchedule /\ [][NextSchedule]_vars

(***************************************************************************)
(* SpecReward: one distribution.  The block is initialized with an author  *)
(* recorded; the reward, the pool ceiling, the miner share, the author's   *)
(* pool statistic and the validator set range over the inputs below.       *)
(***************************************************************************)
RewardInputs == {0, 1, 3, 10, 101, 1000}
LimitInputs == {0, 30, 50, 60, 100}
ShareInputs == {0, 33, 100}
RateInputs == {0, 30, 40, 45, 50, 59, 60, 100}
FeeInputs == {0, 45, 100}
MemberInputs == { << >>, << << 2, 0 >> >>, << << 1, 0 >>, << 2, 0 >> >>,
                  << << 1, 1 >>, << 2, 2 >> >>,
                  << << 2, 1 >>, << 2, 1 >>, << 1, 1 >> >> }
PoolStatInputs ==
    { None } \cup { Some([fee |-> f, rate |-> r, members |-> m]) :
                        f \in FeeInputs, r \in RateInputs, m \in MemberInputs }
ValidatorInputs == { << >>, << 2 >>, << 1, 2 >>, << 2, 1, 2 >> }

InitReward ==
    /\ pc = "initialized"
    /\ block_number = 1
    /\ digest = Some(1)
    /\ Author = Some(1)
    /\ Reward \in RewardInputs
    /\ RewardChanges = EmptyMap
    /\ Mints = EmptyMap
    /\ MintChanges = EmptyMap
    /\ RewardLocks = [a \in AccountId |-> EmptyMap]
    /\ LockParams = None
    /\ MinerShare = None
    /\ currency_locks = [a \in AccountId |-> None]
    /\ MiningPoolMaxRate \in LimitInputs
    /\ events = << >>
    /\ deposits = << >>
    /\ result = "Ok"
    /\ do_reward_calls = << >>

NextReward ==
    \/ \E pct \in ShareInputs : set_miner_share(pct)
    \/ \E st \in PoolStatInputs, v \in ValidatorInputs :
              on_finalize(block_number, st, v)

SpecReward == InitReward /\ [][NextReward]_vars

(***************************************************************************)
(* SpecSettle: one unlock or force_unlock of account 1, whose stored locks *)
(* range over the maps below at any block; account 2 holds the same map    *)
(* and is left alone.                                                      *)
(***************************************************************************)
\* A payout in block b locks under keys above b, and the first block is 1.
LockKeys == 2..(MaxBlock + 1)
LockAmounts == {1, 2}
LockMaps == UNION { [K -> LockAmounts] : K \in SUBSET LockKeys }

InitSettle ==
    /\ pc = "initialized"
    /\ block_number \in 1..MaxBlock
    /\ digest = None
    /\ Author = None
    /\ Reward = calc_rewards(block_number)
    /\ RewardChanges = EmptyMap
    /\ Mints = EmptyMap
    /\ MintChanges = EmptyMap
    /\ \E m \in LockMaps :
          /\ RewardLocks = [a \in AccountId |-> IF a \in Accounts THEN m ELSE EmptyMap]
          /\ currency_locks =
                 [a \in AccountId |->
                     IF a \in Accounts /\ m # EmptyMap
                     THEN Some(SumOver(m, Ascending(DOMAIN m))) ELSE None]
    /\ LockParams = None
    /\ MinerShare = None
    /\ MiningPoolMaxRate = ChainMaxRate
    /\ events = << >>
    /\ deposits = << >>
    /\ result = "Ok"
    /\ do_reward_calls = << >>

NextSettle ==
    \/ unlock(1)
    \/ force_unlock(1)

SpecSettle == InitSettle /\ [][NextSettle]_vars

(***************************************************************************)
(* SpecLocks: the chain from genesis with the lock ledger: payouts under   *)
(* lock parameters, unlock and force_unlock.  The schedule is left to the  *)
(* reward curve.                                                           *)
(***************************************************************************)
LockParamInputs == { [period |-> 2, divide |-> 1], [period |-> 2, divide |-> 2],
                     [period |-> 3, divide |-> 2], [period |-> 6, divide |-> 2] }
LockDigestAuthors == {None, Some(1)}
LockPoolStats == { None, Some([fee |-> 50, rate |-> 45, members |-> << << 2, 1 >> >>]) }
LockValidatorSets == { << >>, << 2 >> }

NextLocks ==
    \/ \E now \in 1..MaxBlock, d \in LockDigestAuthors : on_initialize(now, d)
    \/ \E p \in LockParamInputs : set_lock_params(p)
    \/ \E st \in LockPoolStats, v \in LockValidatorSets :
              on_finalize(block_number, st, v)
    \/ \E a \in Accounts : unlock(a)
    \/ \E a \in Accounts : force_unlock(a)

SpecLocks == Init /\ [][NextLocks]_vars

(***************************************************************************)
(* The block hooks (Spec).                                                 *)
(***************************************************************************)
\* The deposits do_mints makes for a mint map: one to each of its accounts,
\* in the order of the accounts.
mint_deposits(mints) ==
    [i \in 1..Cardinality(DOMAIN mints) |->
        [who    |-> Ascending(DOMAIN mints)[i],
         amount |-> mints[Ascending(DOMAIN mints)[i]],
         by     |-> "mint"]]

is_mint(d) == d.by = "mint"

\* C1: when a block has been processed by on_initialize and on_finalize,
\* do_reward was invoked exactly once, for the digest's author, if the
\* block's digest yields an author, and not at all if it does not; and the
\* mints of the block are one deposit to every account of the active mint
\* map, with or without an author.
C1_one_reward_per_authored_block ==
    (pc = "start" /\ block_number > 0) =>
        /\ Len(do_reward_calls) = IF digest # None THEN 1 ELSE 0
        /\ digest # None => do_reward_calls[1].author = digest[1]
        /\ SelectSeq(deposits, is_mint) = mint_deposits(Mints)

\* A block without an author, after a block with one, whose mint map has
\* two accounts: no reward, both mints paid.
C1_witness ==
    /\ pc = "start"
    /\ block_number > 1
    /\ digest = None
    /\ do_reward_calls = << >>
    /\ Cardinality(DOMAIN Mints) = 2
    /\ Len(deposits) = 2

\* C11: the recorded author does not persist across blocks: after every
\* on_finalize Author is empty, a recorded author is always the author of
\* the current block's digest, and every do_reward call of a block is for
\* the author of that block's digest.
C11_author_is_transient ==
    /\ pc = "start" => Author = None
    /\ Author # None => Author = digest
    /\ \A i \in 1..Len(do_reward_calls) : Some(do_reward_calls[i].author) = digest

\* A block with an author has been finalized: the author was rewarded and
\* is no longer recorded.
C11_witness ==
    /\ pc = "start"
    /\ digest = Some(1)
    /\ Len(do_reward_calls) = 1
    /\ do_reward_calls[1].author = 1
    /\ Author = None

\* The entries of a queue that are due when the block number becomes now,
\* and the place of a due key among them, counted from the least.
due(changes, now) == {k \in DOMAIN changes : k <= now}
place(changes, now, k) == Cardinality({j \in due(changes, now) : j <= k})

\* C6: one on_initialize(now) applies every pending reward change and
\* every pending mint change with key <= now: one RewardChanged, then one
\* MintsChanged, per due entry, in ascending order of the keys; the active
\* reward and mint map are those of the greatest due key; and every due
\* entry, and no other, leaves its queue.
C6_replay_applies_every_due_change ==
    [][(pc = "start" /\ pc' = "initialized") =>
          /\ Len(events') = Cardinality(due(RewardChanges, block_number'))
                                + Cardinality(due(MintChanges, block_number'))
          /\ \A k \in due(RewardChanges, block_number') :
                /\ events'[place(RewardChanges, block_number', k)]
                       = << "RewardChanged", RewardChanges[k] >>
                /\ (place(RewardChanges, block_number', k)
                        = Cardinality(due(RewardChanges, block_number')))
                       => Reward' = RewardChanges[k]
          /\ \A k \in due(MintChanges, block_number') :
                /\ events'[Cardinality(due(RewardChanges, block_number'))
                              + place(MintChanges, block_number', k)]
                       = << "MintsChanged", MintChanges[k] >>
                /\ (place(MintChanges, block_number', k)
                        = Cardinality(due(MintChanges, block_number')))
                       => Mints' = MintChanges[k]
          /\ RewardChanges' = [k \in (DOMAIN RewardChanges) \ due(RewardChanges, block_number')
                                  |-> RewardChanges[k]]
          /\ MintChanges' = [k \in (DOMAIN MintChanges) \ due(MintChanges, block_number')
                                |-> MintChanges[k]]
    ]_vars

\* One on_initialize has applied two reward changes, the one inserted
\* second (5) at the lesser key, and two mint changes: four notifications,
\* the reward that of the greater key, both queues empty.
C6_witness ==
    /\ pc = "initialized"
    /\ Len(events) = 4
    /\ events[1] = << "RewardChanged", 5 >>
    /\ events[2] = << "RewardChanged", 3 >>
    /\ events[3][1] = "MintsChanged"
    /\ events[4][1] = "MintsChanged"
    /\ events[3] # events[4]
    /\ Reward = 3
    /\ Mints = events[4][2]
    /\ RewardChanges = EmptyMap
    /\ MintChanges = EmptyMap

\* C7: neither queue holds an entry whose key is at most the number of the
\* last block on_initialize processed.
C7_queues_hold_only_future_keys ==
    \A k \in (DOMAIN RewardChanges) \cup (DOMAIN MintChanges) : k > block_number

(***************************************************************************)
(* One distribution (SpecReward).                                          *)
(***************************************************************************)
\* The place of the author's payout among the deposits of a do_reward call:
\* after the slash, if one was deposited, and the members' payouts.
author_deposit_index(c) == (IF c.slashed THEN 1 ELSE 0) + Len(c.paid_members) + 1

\* C2: for every reward, miner share, pool statistic and validator set,
\* the amount do_reward pays to the author and the amount it leaves to the
\* validators add up to the block reward.
C2_miner_and_validators_conserve_reward ==
    \A i \in 1..Len(do_reward_calls) :
        /\ do_reward_calls[i].miner_total + do_reward_calls[i].validator_total
               = do_reward_calls[i].reward
        /\ deposits[author_deposit_index(do_reward_calls[i])] =
               [who    |-> do_reward_calls[i].author,
                amount |-> do_reward_calls[i].miner_total,
                by     |-> "reward"]

\* A distribution of a pool that was slashed and paid members, with
\* something for the author and something for the validators.
C2_witness ==
    /\ Len(do_reward_calls) = 1
    /\ do_reward_calls[1].pooled
    /\ do_reward_calls[1].slashed
    /\ do_reward_calls[1].slash_amount > 0
    /\ do_reward_calls[1].payed_rewards > 0
    /\ do_reward_calls[1].miner_total > 0
    /\ do_reward_calls[1].validator_total > 0
    /\ do_reward_calls[1].miner_total + do_reward_calls[1].validator_total
           = do_reward_calls[1].reward

\* C10: with an empty validator set do_reward completes without a fault,
\* pays the author the miner's total as usual, and pays nothing after it:
\* the validators' total goes to no account.
C10_empty_validator_set_is_safe ==
    \A i \in 1..Len(do_reward_calls) :
        do_reward_calls[i].validators = << >> =>
            /\ ~do_reward_calls[i].panicked
            /\ deposits[author_deposit_index(do_reward_calls[i])] =
                   [who    |-> do_reward_calls[i].author,
                    amount |-> do_reward_calls[i].miner_total,
                    by     |-> "reward"]
            /\ \A j \in (author_deposit_index(do_reward_calls[i]) + 1)..Len(deposits) :
                   deposits[j].by = "mint"

\* A distribution with no validator and a validators' total above zero.
C10_witness ==
    /\ Len(do_reward_calls) = 1
    /\ do_reward_calls[1].validators = << >>
    /\ do_reward_calls[1].validator_total > 0
    /\ do_reward_calls[1].miner_total > 0
    /\ ~do_reward_calls[1].panicked
    /\ Len(deposits) = author_deposit_index(do_reward_calls[1])

\* C9: the overmined fraction is 0 when the pool's rate is at most the
\* limit, 100% when it is at least twice the limit, and (pool_rate - limit)
\* by limit in between, and the slash is that fraction of the miner's total
\* before the slash.
C9_overmining_ramp ==
    \A i \in 1..Len(do_reward_calls) :
        do_reward_calls[i].pooled =>
            /\ do_reward_calls[i].overmined =
                   IF do_reward_calls[i].pool_rate <= do_reward_calls[i].limit
                   THEN 0
                   ELSE IF do_reward_calls[i].pool_rate >= 2 * do_reward_calls[i].limit
                   THEN PerbillAccuracy
                   ELSE PerbillSaturatingDiv(
                            do_reward_calls[i].pool_rate - do_reward_calls[i].limit,
                            do_reward_calls[i].limit)
            /\ do_reward_calls[i].slash_amount =
                   PerbillMul(do_reward_calls[i].overmined, do_reward_calls[i].pre_slash)

\* C13: after genesis the current reward changes only in an
\* on_initialize(now) that has a pending reward change with key <= now, or
\* in a set_schedule call that succeeds; every other step, an on_initialize
\* with no due reward change included, leaves it as it was.
C13_reward_changes_only_by_change_or_schedule ==
    [][(block_number >= 1 /\ Reward' # Reward) =>
          \/ /\ pc = "start"
             /\ pc' = "initialized"
             /\ due(RewardChanges, block_number') # {}
          \/ /\ pc \in {"initialized", "body"}
             /\ pc' = "body"
             /\ result' = "Ok"
             /\ events' # << >>
    ]_vars

\* C14: in the pool branch the sum paid to the members is at most
\* members_total, and the pool's part, the members' payouts and the
\* remainder folded back into the author's payout add up to miner_total as
\* it is after the slash.
C14_member_split_conserves ==
    \A i \in 1..Len(do_reward_calls) :
        do_reward_calls[i].pooled =>
            /\ do_reward_calls[i].payed_rewards <= do_reward_calls[i].members_total
            /\ do_reward_calls[i].pool_total
                   + do_reward_calls[i].payed_rewards
                   + (do_reward_calls[i].miner_total - do_reward_calls[i].pool_total)
               = do_reward_calls[i].pre_slash - do_reward_calls[i].slash_amount

\* The deposits made to the treasury for a slash, and the notifications of
\* an exceeded limit.
slash_deposits == SelectSeq(deposits, LAMBDA d : d.by = "slash")
limit_events == SelectSeq(events, LAMBDA e : e[1] = "PoolExceedsLimit")

\* C15: in the pool branch the slash is deposited to the treasury and
\* PoolExceedsLimit(author, amount) is emitted exactly when the slash amount
\* is greater than zero; no notification carries a zero amount.
C15_slash_only_when_positive ==
    \A i \in 1..Len(do_reward_calls) :
        do_reward_calls[i].pooled =>
            /\ do_reward_calls[i].slashed <=> do_reward_calls[i].slash_amount > 0
            /\ slash_deposits # << >> <=> do_reward_calls[i].slash_amount > 0
            /\ limit_events # << >> <=> do_reward_calls[i].slash_amount > 0
            /\ \A j \in 1..Len(limit_events) : limit_events[j][3] > 0

\* C18: in the pool branch, when the declared weights add up to zero
\* every member is paid the same amount, members_total split equally over
\* the member count (to the rounding of one payout); when there are no
\* members nobody is paid, the call does not fault and the whole
\* members_total goes back into the author's payout.
C18_zero_weights_split_equally ==
    \A i \in 1..Len(do_reward_calls) :
        do_reward_calls[i].pooled =>
            /\ ( /\ do_reward_calls[i].members # << >>
                 /\ \A j \in 1..Len(do_reward_calls[i].members) :
                        do_reward_calls[i].members[j][2] = 0 )
               => /\ Len(do_reward_calls[i].paid_members) = Len(do_reward_calls[i].members)
                  /\ \A j \in 1..Len(do_reward_calls[i].members) :
                        /\ do_reward_calls[i].paid_members[j][1]
                               = do_reward_calls[i].members[j][1]
                        /\ do_reward_calls[i].paid_members[j][2]
                               = do_reward_calls[i].paid_members[1][2]
                        /\ 2 * do_reward_calls[i].paid_members[j][2]
                                 * Len(do_reward_calls[i].members)
                               <= 2 * do_reward_calls[i].members_total
                                      + Len(do_reward_calls[i].members)
                        /\ do_reward_calls[i].paid_members[j][2]
                                 * Len(do_reward_calls[i].members)
                               > do_reward_calls[i].members_total
                                      - Len(do_reward_calls[i].members)
            /\ do_reward_calls[i].members = << >>
               => /\ do_reward_calls[i].paid_members = << >>
                  /\ do_reward_calls[i].payed_rewards = 0
                  /\ ~do_reward_calls[i].panicked
                  /\ do_reward_calls[i].miner_total
                         = do_reward_calls[i].pool_total + do_reward_calls[i].members_total

\* Two members of weight 0 have shared a members_total of 500 equally.
C18_witness ==
    /\ Len(do_reward_calls) = 1
    /\ do_reward_calls[1].pooled
    /\ do_reward_calls[1].members = << << 1, 0 >>, << 2, 0 >> >>
    /\ do_reward_calls[1].members_total = 500
    /\ do_reward_calls[1].paid_members = << << 1, 250 >>, << 2, 250 >> >>

\* The balance a sequence of deposits creates.
RECURSIVE created(_)
created(deps) ==
    IF deps = << >> THEN 0 ELSE deps[1].amount + created(Tail(deps))

\* C19: what one do_reward call deposits (the author's payout, the
\* members' and the validators' payouts and the slash to the treasury) is
\* never more than the reward it was given.
C19_distribution_within_reward ==
    \A i \in 1..Len(do_reward_calls) :
        created(SelectSeq(deposits, LAMBDA d : d.by \in {"reward", "slash"}))
            <= do_reward_calls[i].reward

(***************************************************************************)
(* on_initialize run again (SpecReplay).                                   *)
(***************************************************************************)
\* C8: on_initialize run a second time in an initialized block, for the
\* same or an earlier block number, changes neither the reward, the mint
\* map nor the queues, and deposits no notification.
C8_second_advance_is_a_noop ==
    [][(pc = "initialized" /\ pc' = "initialized") =>
          /\ Reward' = Reward
          /\ Mints' = Mints
          /\ RewardChanges' = RewardChanges
          /\ MintChanges' = MintChanges
          /\ events' = << >>
    ]_vars

(***************************************************************************)
(* The lock ledger (SpecSettle, SpecLocks).                                *)
(***************************************************************************)
\* The sum of the balances a lock map holds at a set of keys.
RECURSIVE balance_at(_, _)
balance_at(m, K) ==
    IF K = {} THEN 0
    ELSE m[CHOOSE k \in K : TRUE] + balance_at(m, K \ {CHOOSE k \in K : TRUE})

unexpired(m, current_number) == {k \in DOMAIN m : k > current_number}

\* C3: locks(account) is the sum of the account's entries whose unlock
\* block is greater than the current block number.
C3_locks_counts_only_unexpired ==
    \A a \in AccountId :
        locks(a) = balance_at(RewardLocks[a], unexpired(RewardLocks[a], block_number))

\* C4: unlock (do_update_reward_locks, not forced) stores exactly the
\* entries of the account with a key above the current block number, their
\* balances unchanged, and sets the account's currency lock to their sum.
C4_unlock_keeps_unexpired ==
    [][unlock(1) =>
          /\ RewardLocks'[1] = [k \in unexpired(RewardLocks[1], block_number)
                                   |-> RewardLocks[1][k]]
          /\ currency_locks'[1] =
                 Some(balance_at(RewardLocks[1], unexpired(RewardLocks[1], block_number)))
    ]_vars

\* Account 2 still holds the map account 1 had, with an entry at the
\* current block and entries after it; account 1 holds only the entries
\* after it, under a currency lock of their sum.
C4_witness ==
    /\ pc = "body"
    /\ block_number \in DOMAIN RewardLocks[2]
    /\ Cardinality(unexpired(RewardLocks[2], block_number)) = 2
    /\ DOMAIN RewardLocks[1] = unexpired(RewardLocks[2], block_number)
    /\ \A k \in DOMAIN RewardLocks[1] : RewardLocks[1][k] = RewardLocks[2][k]
    /\ currency_locks[1] = Some(balance_at(RewardLocks[1], DOMAIN RewardLocks[1]))
    /\ currency_locks[1] # currency_locks[2]

\* C5: force_unlock (do_update_reward_locks, forced) leaves the account
\* with no stored lock, whatever the keys, and with no currency lock at
\* all, which is not a lock of zero.
C5_force_unlock_clears ==
    [][force_unlock(1) =>
          /\ RewardLocks'[1] = EmptyMap
          /\ currency_locks'[1] = None
          /\ currency_locks'[1] # Some(0)
    ]_vars

\* Account 2 still holds the map account 1 had, with entries after the
\* current block, under its currency lock; account 1 holds nothing.
C5_witness ==
    /\ pc = "body"
    /\ unexpired(RewardLocks[2], block_number) # {}
    /\ currency_locks[2] # None
    /\ RewardLocks[1] = EmptyMap
    /\ currency_locks[1] = None

(***************************************************************************)
(* set_schedule (SpecSchedule).                                            *)
(***************************************************************************)
\* Whether a schedule holds an amount below the minimum balance: the
\* reward, a mint, a scheduled reward or a scheduled mint.
reward_too_low(c) ==
    \/ c[1] < minimum_balance
    \/ \E k \in DOMAIN FromIter(c[3]) : FromIter(c[3])[k] < minimum_balance

mint_too_low(c) ==
    \/ \E a \in DOMAIN FromIter(c[2]) : FromIter(c[2])[a] < minimum_balance
    \/ \E k \in DOMAIN FromIter(c[4]) :
          \E a \in DOMAIN FromIter(FromIter(c[4])[k]) :
              FromIter(FromIter(c[4])[k])[a] < minimum_balance

\* C12: a set_schedule call with an amount below the minimum balance
\* returns RewardTooLow or MintTooLow, leaves the reward, the mints and both
\* queues as they were and deposits no event; any other call replaces all
\* four by the call's arguments.
C12_set_schedule_all_or_nothing ==
    [][\A c \in ScheduleCalls :
          set_schedule(c[1], c[2], c[3], c[4]) =>
              IF reward_too_low(c) \/ mint_too_low(c)
              THEN /\ result' \in {"RewardTooLow", "MintTooLow"}
                   /\ result' = "RewardTooLow" => reward_too_low(c)
                   /\ result' = "MintTooLow" => mint_too_low(c)
                   /\ Reward' = Reward
                   /\ Mints' = Mints
                   /\ RewardChanges' = RewardChanges
                   /\ MintChanges' = MintChanges
                   /\ events' = << >>
              ELSE /\ result' = "Ok"
                   /\ Reward' = c[1]
                   /\ DOMAIN Mints' = {c[2][i][1] : i \in 1..Len(c[2])}
                   /\ DOMAIN RewardChanges' = {c[3][i][1] : i \in 1..Len(c[3])}
                   /\ DOMAIN MintChanges' = {c[4][i][1] : i \in 1..Len(c[4])}
                   /\ Mints' = FromIter(c[2])
                   /\ RewardChanges' = FromIter(c[3])
                   /\ \A i \in 1..Len(c[4]) :
                         (\A j \in (i + 1)..Len(c[4]) : c[4][j][1] # c[4][i][1])
                             => MintChanges'[c[4][i][1]] = FromIter(c[4][i][2])
    ]_vars

\* A call with a low mint has been rejected on a store that holds a
\* schedule: the stored schedule is still there.
C12_witness ==
    /\ pc = "body"
    /\ result = "MintTooLow"
    /\ events = << >>
    /\ Reward = calc_rewards(1)
    /\ Mints = (1 :> 2)
    /\ RewardChanges = (2 :> 3)
    /\ MintChanges = (3 :> (2 :> 2))

(***************************************************************************)
(* Payouts and the lock ledger (SpecLocks).                                *)
(***************************************************************************)
\* The payouts of a sequence of deposits that went to an account.
payouts_to(deps, a) == SelectSeq(deps, LAMBDA d : d.by = "reward" /\ d.who = a)

\* What a sequence of payouts made at block `when` schedules to unlock at
\* block k.
RECURSIVE scheduled_at(_, _, _, _)
scheduled_at(payouts, k, when, lock_params) ==
    IF payouts = << >> THEN 0
    ELSE Get(generate_reward_locks(when, payouts[1].amount, lock_params), k, 0)
             + scheduled_at(Tail(payouts), k, when, lock_params)

scheduled_keys(payouts, when, lock_params) ==
    UNION {DOMAIN generate_reward_locks(when, payouts[i].amount, lock_params) :
               i \in 1..Len(payouts)}

\* C16: with lock parameters set, the payouts of a block add their
\* schedules to the account's locks: at every unlock block k of a new
\* schedule the balance becomes the existing balance at k (0 if absent)
\* plus what the payouts schedule at k, and an entry at a future key that
\* no new schedule names keeps its balance.
C16_payouts_accumulate ==
    [][(pc # "start" /\ pc' = "start" /\ LockParams # None) =>
          \A a \in AccountId :
              \A k \in (DOMAIN RewardLocks[a]) \cup (DOMAIN RewardLocks'[a])
                          \cup scheduled_keys(payouts_to(deposits', a), block_number, LockParams) :
                  k > block_number =>
                      /\ k \in DOMAIN RewardLocks'[a]
                      /\ RewardLocks'[a][k]
                             = Get(RewardLocks[a], k, 0)
                                 + scheduled_at(payouts_to(deposits', a), k,
                                                block_number, LockParams)
    ]_vars

\* The author of blocks 1 and 2 was paid 2 in each, locked over a period of
\* 2 in 2 parts: the part of block 1 and the part of block 2 that unlock at
\* block 3 are one entry of 2.
C16_witness ==
    /\ pc = "start"
    /\ block_number = 2
    /\ LockParams = Some([period |-> 2, divide |-> 2])
    /\ Len(payouts_to(deposits, 1)) = 1
    /\ payouts_to(deposits, 1)[1].amount = 2
    /\ RewardLocks[1] = (3 :> 2 @@ 4 :> 1)

\* The payouts one do_reward call makes, in its order: the members, the
\* author, the validators.
payouts_of(c) ==
    [i \in 1..Len(c.paid_members) |->
        [who |-> c.paid_members[i][1], amount |-> c.paid_members[i][2], by |-> "reward"]]
    \o << [who |-> c.author, amount |-> c.miner_total, by |-> "reward"] >>
    \o [i \in 1..Len(c.validators) |->
           [who |-> c.validators[i], amount |-> c.per_val, by |-> "reward"]]

\* C17: with no lock parameters set, every payout of a block is deposited
\* in full and the stored locks and the currency locks of every account
\* stay as they were.
C17_no_params_no_locks ==
    [][(pc # "start" /\ pc' = "start" /\ LockParams = None) =>
          /\ RewardLocks' = RewardLocks
          /\ currency_locks' = currency_locks
          /\ SelectSeq(deposits', LAMBDA d : d.by = "reward")
                 = IF do_reward_calls' = << >> THEN << >>
                   ELSE payouts_of(do_reward_calls'[1])
    ]_vars

\* A block paid its author and a validator with no lock parameters set: the
\* payouts are deposited and no account has a lock.
C17_witness ==
    /\ pc = "start"
    /\ LockParams = None
    /\ Len(do_reward_calls) = 1
    /\ do_reward_calls[1].miner_total > 0
    /\ do_reward_calls[1].validators # << >>
    /\ \E i \in 1..Len(deposits) :
          deposits[i] = [who |-> 1, amount |-> do_reward_calls[1].miner_total,
                         by |-> "reward"]
    /\ \A a \in AccountId : RewardLocks[a] = EmptyMap /\ currency_locks[a] = None

\* The amount of an account's currency lock under the rewards id: 0 when
\* there is no lock.
lock_amount(a) == IF currency_locks[a] = None THEN 0 ELSE currency_locks[a][1]

\* C20: in every state, for every account, the amount of the currency lock
\* (0 when there is none) is the sum of all the balances stored in the
\* account's RewardLocks map, entries at keys up to the current block
\* included.
C20_currency_lock_is_ledger_total ==
    \A a \in AccountId :
        lock_amount(a) = balance_at(RewardLocks[a], DOMAIN RewardLocks[a])

\* In block 2 the author of block 1 holds a payout of 2 locked as one entry
\* at block 2 and one at block 3, under a currency lock of 2.
C20_witness ==
    /\ block_number = 2
    /\ pc = "initialized"
    /\ RewardLocks[1] = (2 :> 1 @@ 3 :> 1)
    /\ currency_locks[1] = Some(2)

====
